---- MODULE Spec2Model ----
(***************************************************************************)
(* Model of legacy/firmware/layout2.c: the home / device-info /            *)
(* screensaver navigation polled by layoutHomeInfo, the derivation path    *)
(* labels produced by address_n_str, and the message pagination of         *)
(* split_message / split_message_hex with the dialogs that use it.         *)
(*                                                                         *)
(* The firmware build is modelled (EMULATOR == 0, BITCOIN_ONLY == 0).      *)
(***************************************************************************)
EXTENDS Integers, Sequences, FiniteSets, TLC

VARIABLES
  layoutLast,                        \* void *layoutLast
  info_page,                         \* static uint8_t info_page (layoutHomeInfo)
  system_millis,                     \* value returned by timer_ms()
  system_millis_lock_start,          \* uint32_t, reset by layoutHome
  system_millis_display_info_start,  \* uint32_t, reset by layoutDeviceInfo
  system_millis_logo_refresh,        \* static uint32_t (layoutHomeInfo)
  autoLockDelayMs,                   \* value of config_getAutoLockDelayMs()
  powered,                           \* FALSE once shutdown() was called
  lastOp,                            \* the operation that produced this state
  tickPre,                           \* state at the start of the last tick
  tickIn,                            \* inputs of the last tick
  calls,                             \* calls made by the last operation
  elapsed,                           \* true ms since the first state
  shorts,                            \* number of waits below 1000 ms so far
  sinceHome,                         \* true ms since the last layoutHome
  sinceButton,                       \* true ms since the last button edge
  sinceInfo,                         \* true ms since the last layoutDeviceInfo
  sincePoll,                         \* true ms since the last 1 s status poll
  again,                             \* the last operation was a tick without
                                     \* button edge and the clock has not moved
  address_n,                         \* argument of address_n_str
  address_is_account,                \* argument of address_n_str
  coins,                             \* the registry behind coinBySlip44
  path_str,                          \* string returned by address_n_str
  path_w,                            \* the buffer address_n_str wrote and the
                                     \* lowest and highest offset it wrote
  fn,                                \* the pagination function or dialog called
  msg,                               \* the bytes in memory from the pointer msg on
  len,                               \* argument len
  rowlen,                            \* argument rowlen of split_message
  ui_language,                       \* the global ui_language
  str,                               \* static char str[4][32 + 1], row-major
  writes,                            \* offsets in str written by the last call
  marks,                             \* offsets where it wrote the '.' marker
  mode,                              \* pagination chosen by the last dialog
  shown,                             \* the four lines the last dialog showed
  held,                              \* what an earlier call returned, and its
                                     \* input, still held by its caller
  pc                                 \* "idle" / "done": between operations /
                                     \* an operation has returned;
                                     \* "input" / "ret": address_n_str call;
                                     \* "s_input" / "s_ret": pagination call

navVars == <<layoutLast, info_page, system_millis, system_millis_lock_start,
             system_millis_display_info_start, system_millis_logo_refresh,
             autoLockDelayMs, powered, lastOp, tickPre, tickIn, calls,
             elapsed, shorts, sinceHome, sinceButton, sinceInfo, sincePoll,
             again>>
pathVars == <<address_n, address_is_account, coins, path_str, path_w>>
splitVars == <<fn, msg, len, rowlen, ui_language, str, writes, marks, mode,
               shown, held>>
vars == <<navVars, pathVars, splitVars, pc>>

(***************************************************************************)
(* uint32_t arithmetic.  A 32-bit value is kept as two 16-bit halves so    *)
(* that differences are taken modulo 2^32.                                 *)
(***************************************************************************)
W16 == 65536

U32(n) == [hi |-> (n \div W16) % W16, lo |-> n % W16]

Add32(a, d) ==
  LET t == a.lo + d
  IN  [hi |-> (a.hi + (t \div W16)) % W16, lo |-> t % W16]

\* the difference without the wrap: 0 when a is below b
Sub32_Saturating(a, b) ==
  LET l  == a.lo - b.lo
      bo == IF l < 0 THEN 1 ELSE 0
  IN  IF a.hi < b.hi \/ (a.hi = b.hi /\ a.lo < b.lo) THEN [hi |-> 0, lo |-> 0]
      ELSE [hi |-> (a.hi - b.hi - bo + W16) % W16, lo |-> (l + W16) % W16]

Sub32(a, b) ==
  LET l  == a.lo - b.lo
      bo == IF l < 0 THEN 1 ELSE 0
  IN  [hi |-> (a.hi - b.hi - bo + W16) % W16, lo |-> (l + W16) % W16]

Ge32(a, b) == a.hi > b.hi \/ (a.hi = b.hi /\ a.lo >= b.lo)

Val(a) == a.hi * W16 + a.lo

(***************************************************************************)
(* Program constants.                                                      *)
(***************************************************************************)
DEVICE_INFO_PAGE_NUM == 4
InfoDisplayMs == 10000
LogoRefreshMs == 1000

(***************************************************************************)
(* Bounds of the model.                                                    *)
(***************************************************************************)
MaxElapsed == 10000                \* ms of model time after boot
MaxShort == 1                      \* number of waits below the poll period
Waits == {0, 500, 9500}            \* ms between two operations
AutoLockDelays == {500, 10000}     \* values of config_getAutoLockDelayMs()
\* values of timer_ms() in the first state: 0 and 2^32 - 5000
StartTimes == {U32(0), [hi |-> W16 - 1, lo |-> W16 - 5000]}

Dialogs == {"layoutDialogSwipe", "layoutProgressSwipe", "layoutResetWord",
            "layoutAddress", "layoutXPUB"}
Screens == {"layoutHome", "layoutScreensaver", "layoutDeviceInfo"} \cup Dialogs

\* the calls an operation makes: counters, the pages passed to
\* layoutDeviceInfo, the layoutStatusLogo calls (forced or not, the screen
\* they were made on, their result) and, for each lock check that fired,
\* the value of sys_nfcState() || sys_usbState() it read
NoCalls == [recovery_abort |-> 0, signing_abort |-> 0, session_clear |-> 0,
            shutdown |-> 0, layoutHome |-> 0, layoutScreensaver |-> 0,
            layoutDeviceInfo |-> <<>>, layoutStatusLogo |-> <<>>,
            lock |-> <<>>]

NoButtons == [NoUp |-> FALSE, YesUp |-> FALSE, UpUp |-> FALSE, DownUp |-> FALSE]
Buttons == [NoUp : BOOLEAN, YesUp : BOOLEAN, UpUp : BOOLEAN, DownUp : BOOLEAN]
AnyUp(b) == b.NoUp \/ b.YesUp \/ b.UpUp \/ b.DownUp

(***************************************************************************)
(* The functions of layout2.c act on a record s of the program state:      *)
(* layoutLast, info_page, the three timers, the calls made so far and off  *)
(* (shutdown() does not return).  in holds the values read at the start of *)
(* the operation: the button edges, layoutNeedRefresh(), timer_ms() and    *)
(* config_getAutoLockDelayMs().  The status functions of other modules     *)
(* (layoutStatusLogo, sys_nfcState, sys_usbState) may return either value  *)
(* at each call, so every function yields the SET of its outcomes.         *)
(***************************************************************************)
Then(S, F(_)) == UNION {F(s) : s \in S}

layoutScreensaver(s) ==
  [s EXCEPT !.layoutLast = "layoutScreensaver",
            !.calls.layoutScreensaver = @ + 1]

\* layoutHome without the session_clear(true) of the tamper branch
layoutHomeLogo_NoClear(s, in, r) ==
  LET s1 == [s EXCEPT !.layoutLast = "layoutHome",
                      !.calls.layoutHome = @ + 1,
                      !.calls.layoutStatusLogo =
                         Append(@, [force |-> TRUE, on |-> "layoutHome",
                                    result |-> r])]
      s2 == IF r
            THEN [s1 EXCEPT !.calls.recovery_abort = @ + 1,
                            !.calls.signing_abort = @ + 1]
            ELSE s1
  IN  [s2 EXCEPT !.lock_start = in.now]

\* layoutHome without "Reset lock screen timeout"
layoutHomeLogo_NoLockReset(s, in, r) ==
  LET s1 == [s EXCEPT !.layoutLast = "layoutHome",
                      !.calls.layoutHome = @ + 1,
                      !.calls.layoutStatusLogo =
                         Append(@, [force |-> TRUE, on |-> "layoutHome",
                                    result |-> r])]
  IN  IF r
      THEN [s1 EXCEPT !.calls.recovery_abort = @ + 1,
                      !.calls.signing_abort = @ + 1,
                      !.calls.session_clear = @ + 1]
      ELSE s1

\* layoutHome when layoutStatusLogo(true) returns r
layoutHomeLogo(s, in, r) ==
  LET s1 == [s EXCEPT !.layoutLast = "layoutHome",
                      !.calls.layoutHome = @ + 1,
                      !.calls.layoutStatusLogo =
                         Append(@, [force |-> TRUE, on |-> "layoutHome",
                                    result |-> r])]
      s2 == IF r
            THEN [s1 EXCEPT !.calls.recovery_abort = @ + 1,
                            !.calls.signing_abort = @ + 1,
                            !.calls.session_clear = @ + 1]
            ELSE s1
  IN  [s2 EXCEPT !.lock_start = in.now]

layoutHome(s, in) == {layoutHomeLogo(s, in, r) : r \in BOOLEAN}

layoutDeviceInfo(s, in, ucPage) ==
  [s EXCEPT !.layoutLast = "layoutDeviceInfo",
            !.info_start = in.now,
            !.calls.layoutDeviceInfo = Append(@, ucPage)]

\* the Home branch with the two pages exchanged
HomeButtons_Swapped(s, in) ==
  IF in.button.UpUp \/ in.button.DownUp
  THEN LET p == IF in.button.UpUp THEN 1 ELSE DEVICE_INFO_PAGE_NUM
       IN  layoutDeviceInfo([s EXCEPT !.info_page = p], in, p)
  ELSE s

\* layoutHomeInfo, the branch taken when layoutLast == layoutHome
HomeButtons(s, in) ==
  IF in.button.UpUp \/ in.button.DownUp
  THEN LET p == IF in.button.UpUp THEN DEVICE_INFO_PAGE_NUM ELSE 1
       IN  layoutDeviceInfo([s EXCEPT !.info_page = p], in, p)
  ELSE s

\* "auto display 10 seconds"
InfoTimeout(s, in) ==
  IF Ge32(Sub32(in.now, s.info_start), U32(InfoDisplayMs))
  THEN [s EXCEPT !.info_page = 0]
  ELSE s

\* the device-info branch leaving the page on confirm as on cancel
InfoButtons_YesLeaves(s, in) ==
  LET s1 == InfoTimeout(s, in)
      s2 == IF in.button.UpUp
            THEN IF s1.info_page # 0
                 THEN layoutDeviceInfo([s1 EXCEPT !.info_page = @ - 1], in,
                                       s1.info_page - 1)
                 ELSE s1
            ELSE IF in.button.DownUp
            THEN IF s1.info_page < DEVICE_INFO_PAGE_NUM
                 THEN layoutDeviceInfo([s1 EXCEPT !.info_page = @ + 1], in,
                                       s1.info_page + 1)
                 ELSE [s1 EXCEPT !.info_page = 0]
            ELSE IF in.button.NoUp \/ in.button.YesUp
            THEN [s1 EXCEPT !.info_page = 0]
            ELSE s1
  IN  IF s2.info_page = 0 THEN layoutHome(s2, in) ELSE {s2}

\* layoutHomeInfo, the branch taken when layoutLast == layoutDeviceInfo
InfoButtons(s, in) ==
  LET s1 == InfoTimeout(s, in)
      s2 == IF in.button.UpUp
            THEN IF s1.info_page # 0
                 THEN layoutDeviceInfo([s1 EXCEPT !.info_page = @ - 1], in,
                                       s1.info_page - 1)
                 ELSE s1
            ELSE IF in.button.DownUp
            THEN IF s1.info_page < DEVICE_INFO_PAGE_NUM
                 THEN layoutDeviceInfo([s1 EXCEPT !.info_page = @ + 1], in,
                                       s1.info_page + 1)
                 ELSE [s1 EXCEPT !.info_page = 0]
            ELSE IF in.button.NoUp
            THEN [s1 EXCEPT !.info_page = 0]
            ELSE s1
  IN  IF s2.info_page = 0 THEN layoutHome(s2, in) ELSE {s2}

\* sys_nfcState() || sys_usbState()
TransportPresent(nfc, usb) == nfc \/ usb

\* "if homescreen is shown for too long"
LockCheck(s, in) ==
  IF Ge32(Sub32(in.now, s.lock_start), in.delay)
  THEN {IF TransportPresent(nfc, usb)
        THEN layoutScreensaver(
               [s EXCEPT !.calls.session_clear = @ + 1,
                         !.calls.lock = Append(@, TRUE)])
        ELSE [s EXCEPT !.calls.shutdown = @ + 1,
                       !.calls.lock = Append(@, FALSE),
                       !.off = TRUE] : nfc \in BOOLEAN, usb \in BOOLEAN}
  ELSE {s}

\* the poll without the update of system_millis_logo_refresh
LogoPoll_NoStamp(s, in, r) ==
  LET s1 == [s EXCEPT !.calls.layoutStatusLogo =
                         Append(@, [force |-> FALSE, on |-> s.layoutLast,
                                    result |-> r])]
  IN  IF r
      THEN layoutHome([s1 EXCEPT !.calls.recovery_abort = @ + 1,
                                 !.calls.signing_abort = @ + 1,
                                 !.calls.session_clear = @ + 1], in)
      ELSE {s1}

\* the body of "1000 ms refresh" when layoutStatusLogo(false) returns r
LogoPoll(s, in, r) ==
  LET s1 == [s EXCEPT !.calls.layoutStatusLogo =
                         Append(@, [force |-> FALSE, on |-> s.layoutLast,
                                    result |-> r])]
      S2 == IF r
            THEN layoutHome([s1 EXCEPT !.calls.recovery_abort = @ + 1,
                                       !.calls.signing_abort = @ + 1,
                                       !.calls.session_clear = @ + 1], in)
            ELSE {s1}
  IN  {[s2 EXCEPT !.logo_refresh = in.now] : s2 \in S2}

\* "1000 ms refresh"
LogoRefresh(s, in) ==
  IF Ge32(Sub32(in.now, s.logo_refresh), U32(LogoRefreshMs))
  THEN UNION {LogoPoll(s, in, r) : r \in BOOLEAN}
  ELSE {s}

\* the statements guarded by the second "layoutLast == layoutHome"
HomeTimers(s, in) ==
  LET Poll(s1) == IF s1.off THEN {s1} ELSE LogoRefresh(s1, in)
  IN  Then(LockCheck(s, in), Poll)

\* the last statements without recovery_abort()
WakeOrAbort_NoRecoveryAbort(s, in) ==
  IF s.layoutLast = "layoutScreensaver" /\ AnyUp(in.button)
  THEN layoutHome(s, in)
  ELSE IF s.layoutLast # "layoutHome" /\ s.layoutLast # "layoutScreensaver"
          /\ in.button.NoUp
  THEN {[s EXCEPT !.calls.signing_abort = @ + 1]}
  ELSE {s}

\* "wake from screensaver on any button", then the abort on cancel
WakeOrAbort(s, in) ==
  IF s.layoutLast = "layoutScreensaver" /\ AnyUp(in.button)
  THEN layoutHome(s, in)
  ELSE IF s.layoutLast # "layoutHome" /\ s.layoutLast # "layoutScreensaver"
          /\ in.button.NoUp
  THEN {[s EXCEPT !.calls.recovery_abort = @ + 1,
                  !.calls.signing_abort = @ + 1]}
  ELSE {s}

\* the test taken as true on every screen
HomeShown_Always(s) == TRUE

\* the second "layoutLast == layoutHome", which guards the lock check
HomeShown(s) == s.layoutLast = "layoutHome"

layoutHomeInfo(s, in) ==
  LET Nav(s1) == IF s1.layoutLast = "layoutHome"
                 THEN {HomeButtons(s1, in)}
                 ELSE IF s1.layoutLast = "layoutDeviceInfo"
                 THEN InfoButtons(s1, in)
                 ELSE {s1}
      Timers(s2) == IF HomeShown(s2)
                    THEN HomeTimers(s2, in)
                    ELSE {s2}
      Tail4(s3) == IF s3.off THEN {s3} ELSE WakeOrAbort(s3, in)
      S1 == IF in.layoutNeedRefresh THEN layoutHome(s, in) ELSE {s}
  IN  Then(Then(Then(S1, Nav), Timers), Tail4)

(***************************************************************************)
(* The state machine.                                                      *)
(***************************************************************************)
Cur == [layoutLast |-> layoutLast, info_page |-> info_page,
        lock_start |-> system_millis_lock_start,
        info_start |-> system_millis_display_info_start,
        logo_refresh |-> system_millis_logo_refresh,
        calls |-> NoCalls, off |-> FALSE]

Pre == [layoutLast |-> layoutLast, info_page |-> info_page,
        lock_start |-> system_millis_lock_start,
        info_start |-> system_millis_display_info_start,
        logo_refresh |-> system_millis_logo_refresh,
        sinceHome |-> sinceHome, sinceButton |-> sinceButton,
        sinceInfo |-> sinceInfo, sincePoll |-> sincePoll, again |-> again]

NoIn == [button |-> NoButtons, layoutNeedRefresh |-> FALSE]

In(b, refresh) == [button |-> b, layoutNeedRefresh |-> refresh,
                   now |-> system_millis, delay |-> autoLockDelayMs]

Polls(c) == {i \in 1..Len(c.layoutStatusLogo) : ~c.layoutStatusLogo[i].force}

Store(t) ==
  /\ layoutLast' = t.layoutLast
  /\ info_page' = t.info_page
  /\ system_millis_lock_start' = t.lock_start
  /\ system_millis_display_info_start' = t.info_start
  /\ system_millis_logo_refresh' = t.logo_refresh
  /\ powered' = ~t.off
  /\ calls' = t.calls
  /\ sinceHome' = IF t.calls.layoutHome > 0 THEN 0 ELSE sinceHome
  /\ sinceInfo' = IF t.calls.layoutDeviceInfo # <<>> THEN 0 ELSE sinceInfo
  /\ sincePoll' = IF Polls(t.calls) # {} THEN 0 ELSE sincePoll

\* static char str[4][32 + 1]: four rows of 32 characters and a NUL each
StrRows == 4
RowCap == 32
StrCols == RowCap + 1
StrSize == StrRows * StrCols

\* n zero bytes (memzero, and static storage before the first call)
Zeros(n) == [i \in 1..n |-> 0]

\* no pagination call has been made
SplitIdle ==
  /\ fn = "none"
  /\ msg = <<0>>
  /\ len = 0
  /\ rowlen = 0
  /\ ui_language = FALSE
  /\ str = Zeros(StrSize)
  /\ writes = {}
  /\ marks = {}
  /\ mode = "none"
  /\ shown = <<>>
  /\ held = <<>>

PathIdle ==
  /\ address_n = <<>>
  /\ address_is_account = FALSE
  /\ coins = {}
  /\ path_str = ""
  /\ path_w = [buf |-> "none", lo |-> 0, hi |-> 0]

\* Home is shown at boot, or, 5 s before the millisecond clock wraps, Home
\* has just been rendered and polled by a tick that left the device-info
\* screen in the same millisecond
Init ==
  /\ layoutLast = "layoutHome"
  /\ info_page = 0
  /\ system_millis \in StartTimes
  /\ system_millis_lock_start = system_millis
  /\ system_millis_display_info_start = system_millis
  /\ system_millis_logo_refresh = system_millis
  /\ autoLockDelayMs \in {U32(d) : d \in AutoLockDelays}
  /\ powered = TRUE
  /\ lastOp = "init"
  /\ tickIn = NoIn
  /\ calls = NoCalls
  /\ elapsed = 0
  /\ shorts = 0
  /\ sinceHome = 0
  /\ sinceButton = 0
  /\ sinceInfo = 0
  /\ sincePoll = 0
  /\ again = FALSE
  /\ tickPre = Pre
  /\ PathIdle
  /\ SplitIdle
  /\ pc = "idle"

\* one call of layoutHomeInfo by the main loop
Tick ==
  /\ pc = "idle" /\ powered
  /\ \E b \in Buttons, refresh \in BOOLEAN :
       /\ \E t \in layoutHomeInfo(Cur, In(b, refresh)) : Store(t)
       /\ tickIn' = [button |-> b, layoutNeedRefresh |-> refresh]
       /\ sinceButton' = IF AnyUp(b) THEN 0 ELSE sinceButton
       /\ again' = ~AnyUp(b)
  /\ tickPre' = Pre
  /\ lastOp' = "tick"
  /\ pc' = "done"
  /\ UNCHANGED <<system_millis, autoLockDelayMs, elapsed, shorts, pathVars,
                 splitVars>>

\* another module of the firmware shows a dialog
ShowDialog ==
  /\ pc = "idle" /\ powered
  /\ \E f \in Dialogs : layoutLast' = f
  /\ lastOp' = "dialog"
  /\ calls' = NoCalls
  /\ tickPre' = Pre
  /\ tickIn' = NoIn
  /\ again' = FALSE
  /\ pc' = "done"
  /\ UNCHANGED <<info_page, system_millis, system_millis_lock_start,
                 system_millis_display_info_start, system_millis_logo_refresh,
                 autoLockDelayMs, powered, elapsed, shorts, sinceHome,
                 sinceButton,
                 sinceInfo, sincePoll, pathVars, splitVars>>

\* another module of the firmware calls layoutU2FDialog (U2F_ENABLED == 1):
\* it draws the dialog with layoutDialog and does not assign layoutLast
ShowU2FDialog ==
  /\ pc = "idle" /\ powered
  /\ lastOp' = "layoutU2FDialog"
  /\ calls' = NoCalls
  /\ tickPre' = Pre
  /\ tickIn' = NoIn
  /\ again' = FALSE
  /\ pc' = "done"
  /\ UNCHANGED <<layoutLast, info_page, system_millis,
                 system_millis_lock_start, system_millis_display_info_start,
                 system_millis_logo_refresh, autoLockDelayMs, powered,
                 elapsed, shorts, sinceHome, sinceButton, sinceInfo,
                 sincePoll, pathVars, splitVars>>

\* another module of the firmware calls layoutHome
ShowHome ==
  /\ pc = "idle" /\ powered
  /\ \E t \in layoutHome(Cur, In(NoButtons, FALSE)) : Store(t)
  /\ lastOp' = "home"
  /\ tickPre' = Pre
  /\ tickIn' = NoIn
  /\ again' = FALSE
  /\ pc' = "done"
  /\ UNCHANGED <<system_millis, autoLockDelayMs, elapsed, shorts, sinceButton,
                 pathVars, splitVars>>

\* the operation has returned; the millisecond clock advances by d before
\* the next one starts, and what was recorded of the last one is dropped
Advance ==
  /\ pc = "done" /\ powered
  /\ \E d \in Waits :
       /\ elapsed + d <= MaxElapsed
       /\ shorts' = IF 0 < d /\ d < LogoRefreshMs THEN shorts + 1 ELSE shorts
       /\ shorts' <= MaxShort
       /\ system_millis' = Add32(system_millis, d)
       /\ elapsed' = elapsed + d
       /\ sinceHome' = sinceHome + d
       /\ sinceButton' = sinceButton + d
       /\ sinceInfo' = sinceInfo + d
       /\ sincePoll' = sincePoll + d
       /\ again' = (again /\ d = 0)
  /\ lastOp' = "advance"
  /\ calls' = NoCalls
  /\ tickIn' = NoIn
  /\ tickPre' = [layoutLast |-> layoutLast, info_page |-> info_page,
                 lock_start |-> system_millis_lock_start,
                 info_start |-> system_millis_display_info_start,
                 logo_refresh |-> system_millis_logo_refresh,
                 sinceHome |-> sinceHome', sinceButton |-> sinceButton',
                 sinceInfo |-> sinceInfo', sincePoll |-> sincePoll',
                 again |-> again']
  /\ pc' = "idle"
  /\ UNCHANGED <<layoutLast, info_page, system_millis_lock_start,
                 system_millis_display_info_start, system_millis_logo_refresh,
                 autoLockDelayMs, powered, pathVars, splitVars>>

Next == Tick \/ ShowDialog \/ ShowU2FDialog \/ ShowHome \/ Advance

Spec == Init /\ [][Next]_vars

(***************************************************************************)
(* address_n_str.  A path component is a uint32_t kept as its top bit h    *)
(* (the hardened flag, 0x80000000) and its low 31 bits v.  Strings are the *)
(* C strings without their terminating NUL.                                *)
(***************************************************************************)
BIP32_MAX_LAST_ELEMENT == 1000000
PathBufSize == 100

NULL == "NULL"
H(n) == [h |-> TRUE, v |-> n]
N(n) == [h |-> FALSE, v |-> n]

\* '0' + d, for a digit d
DigitChar(d) == SubSeq("0123456789", d + 1, d + 1)

strlcpy(src, size) ==
  IF Len(src) < size THEN src ELSE SubSeq(src, 1, size - 1)

strlcat(dst, src, size) ==
  IF Len(dst) + Len(src) < size THEN dst \o src
  ELSE SubSeq(dst \o src, 1, size - 1)

slip44_extras(coin_type) ==
  IF ~coin_type.h THEN NULL
  ELSE CASE coin_type.v = 40 -> "EXP"
         [] coin_type.v = 43 -> "NEM"
         [] coin_type.v = 60 -> "ETH"
         [] coin_type.v = 61 -> "ETC"
         [] coin_type.v = 108 -> "UBQ"
         [] coin_type.v = 137 -> "RSK"
         [] coin_type.v = 37310 -> "tRSK"
         [] OTHER -> NULL

\* the entries of the registry for the coin type: none (a null pointer) or
\* the one that coinBySlip44 returns
coinBySlip44(reg, coin_type) == {e \in reg : e.coin_type = coin_type}

\* the test of the "known BIP44/49 path" branch
KnownPath(a) ==
  /\ Len(a) = 5
  /\ a[1] = H(44) \/ a[1] = H(49) \/ a[1] = H(84)
  /\ a[2].h /\ a[3].h
  /\ ~a[4].h /\ a[4].v <= 1
  /\ ~a[5].h /\ a[5].v <= BIP32_MAX_LAST_ELEMENT

\* as Abbr, with the extras table consulted for every purpose when the
\* registry has no usable entry
Abbr_ExtrasAnyPurpose(a, reg) ==
  LET found    == coinBySlip44(reg, a[2])
      coin     == CHOOSE e \in found : TRUE
      shortcut == Tail(coin.coin_shortcut)
  IN  IF found # {} /\ (a[1] = H(44) \/ coin.has_segwit)
         /\ (a[1] # H(84) \/ coin.bech32_prefix # NULL)
      THEN [abbr |-> shortcut, legacy |-> a[1] = H(44) /\ coin.has_segwit]
      ELSE [abbr |-> slip44_extras(a[2]), legacy |-> FALSE]

\* abbr and legacy as the three branches on the purpose set them
Abbr(a, reg) ==
  LET native_segwit == a[1] = H(84)
      p2sh_segwit   == a[1] = H(49)
      found         == coinBySlip44(reg, a[2])
      coin          == CHOOSE e \in found : TRUE
      shortcut      == Tail(coin.coin_shortcut)
  IN  IF native_segwit
      THEN [abbr |-> IF found # {} /\ coin.has_segwit
                        /\ coin.bech32_prefix # NULL
                     THEN shortcut ELSE NULL,
            legacy |-> FALSE]
      ELSE IF p2sh_segwit
      THEN [abbr |-> IF found # {} /\ coin.has_segwit
                     THEN shortcut ELSE NULL,
            legacy |-> FALSE]
      ELSE IF found # {}
      THEN [abbr |-> shortcut, legacy |-> coin.has_segwit]
      ELSE [abbr |-> slip44_extras(a[2]), legacy |-> FALSE]

\* accnum taken from the other component
AccNum_Swapped(a, address_is_acc) ==
  IF address_is_acc THEN a[3].v + 1 ELSE a[5].v + 1

AccNum(a, address_is_acc) ==
  IF address_is_acc THEN a[5].v + 1 ELSE a[3].v + 1

\* the digits of accnum, always two of them
AccStr_Padded(accnum) ==
  DigitChar(accnum \div 10) \o DigitChar(accnum % 10)

\* char acc[3]: the digits of accnum < 100
AccStr(accnum) ==
  IF accnum < 10 THEN DigitChar(accnum)
  ELSE DigitChar(accnum \div 10) \o DigitChar(accnum % 10)

\* the label composed in the static buffer path[100]
Label(a, address_is_acc, r) ==
  LET p1 == strlcpy(r.abbr, PathBufSize)
      p2 == IF r.legacy THEN strlcat(p1, " legacy", PathBufSize) ELSE p1
      p3 == IF a[1] = H(84) THEN strlcat(p2, " segwit", PathBufSize) ELSE p2
      p4 == IF address_is_acc THEN strlcat(p3, " address #", PathBufSize)
            ELSE strlcat(p3, " account #", PathBufSize)
  IN  strlcat(p4, AccStr(AccNum(a, address_is_acc)), PathBufSize)

\* the buffer one byte shorter
AddressStrSize_Short == 7 + 8 * (1 + 10 + 1)

\* static char address_str[7 + 8 * (1 + 10 + 1) + 1]
AddressStrSize == 7 + 8 * (1 + 10 + 1) + 1

\* "*c = ch; c--": w.str is the text written so far (from c + 1 up to the
\* terminating NUL) and w.c the index of c in address_str
Put_Forward(w, ch) == [w EXCEPT !.str = @ \o ch, !.c = @ - 1]
Put(w, ch) == [w EXCEPT !.str = ch \o @, !.c = @ - 1]

\* the do-while loop that writes the decimal digits of w.i
RECURSIVE Digits(_)
Digits(w) ==
  LET w1 == [Put(w, DigitChar(w.i % 10)) EXCEPT !.i = w.i \div 10]
  IN  IF w1.i > 0 THEN Digits(w1) ELSE w1

\* the for loop over the components w.n, w.n - 1, .. (1-based here)
RECURSIVE Components(_, _)
Components(a, w) ==
  IF w.n < 1 THEN w
  ELSE LET i  == a[w.n]
           w1 == IF i.h THEN Put(w, "'") ELSE w
           w2 == Digits([w1 EXCEPT !.i = i.v])
           w3 == Put(w2, "/")
       IN  Components(a, [w3 EXCEPT !.n = @ - 1])

\* the raw rendering: the text and the index of the returned pointer c
RawPath(a) ==
  LET w0 == [str |-> "", c |-> AddressStrSize - 2, n |-> Len(a), i |-> 0]
      w  == Components(a, w0)
  IN  [str |-> "Path: m" \o w.str, c |-> w.c - 6]

\* the test of the first early return, on one component more
TooLong_Nine(count) == count > 9

\* address_n_count > 8
TooLong(count) == count > 8

address_n_str(a, address_is_acc, reg) ==
  IF TooLong(Len(a)) THEN "Unknown long path"
  ELSE IF Len(a) = 0 THEN "Path: m"
  ELSE IF KnownPath(a) /\ Abbr(a, reg).abbr # NULL
          /\ AccNum(a, address_is_acc) < 100
  THEN Label(a, address_is_acc, Abbr(a, reg))
  ELSE RawPath(a).str

\* what the call writes: nothing when it returns a literal; path[0..99]
\* (memzero, then strlcpy / strlcat bounded by sizeof(path)) for a label;
\* address_str from the returned pointer c up to the NUL in its last byte
address_n_writes(a, address_is_acc, reg) ==
  IF TooLong(Len(a)) \/ Len(a) = 0 THEN [buf |-> "none", lo |-> 0, hi |-> 0]
  ELSE IF KnownPath(a) /\ Abbr(a, reg).abbr # NULL
          /\ AccNum(a, address_is_acc) < 100
  THEN [buf |-> "path", lo |-> 0, hi |-> PathBufSize - 1]
  ELSE [buf |-> "address_str", lo |-> RawPath(a).c,
        hi |-> AddressStrSize - 1]

(***************************************************************************)
(* Calls of address_n_str: the arguments and the coin registry are drawn   *)
(* from bounded sets.                                                      *)
(***************************************************************************)
MaxExtra == 2          \* length of the non-canonical paths beyond 0 and 9

BTC == [coin_type |-> H(0), coin_shortcut |-> " BTC", has_segwit |-> TRUE,
        bech32_prefix |-> "bc"]
Registries ==
  {{}, {BTC},
   {[BTC EXCEPT !.bech32_prefix = NULL]},
   {[BTC EXCEPT !.has_segwit = FALSE, !.bech32_prefix = NULL]},
   {BTC, [coin_type |-> H(60), coin_shortcut |-> " XYZ",
          has_segwit |-> FALSE, bech32_prefix |-> NULL]}}

Purposes == {H(44), H(49), H(84), N(44), H(45)}
CoinTypes == {H(0), H(60), N(60), H(2)}
Accounts == {H(0), H(8), H(9), H(98), H(99), N(0), H(2147483646)}
Chains == {N(0), N(1), N(2), H(0)}
Indexes == {N(0), N(8), N(9), N(99), N(1000000), N(1000001), H(0)}
Others == {N(0), H(2147483647)}

PathInputs ==
  {<<p, c, a, ch, i>> : p \in Purposes, c \in CoinTypes, a \in Accounts,
                        ch \in Chains, i \in Indexes}
  \cup UNION {[1..n -> Others] : n \in (0..MaxExtra) \cup {8, 9}}

NavIdle ==
  /\ layoutLast = "layoutHome"
  /\ info_page = 0
  /\ system_millis = U32(0)
  /\ system_millis_lock_start = U32(0)
  /\ system_millis_display_info_start = U32(0)
  /\ system_millis_logo_refresh = U32(0)
  /\ autoLockDelayMs = U32(10000)
  /\ powered = TRUE
  /\ lastOp = "init"
  /\ tickIn = NoIn
  /\ calls = NoCalls
  /\ elapsed = 0
  /\ shorts = 0
  /\ sinceHome = 0
  /\ sinceButton = 0
  /\ sinceInfo = 0
  /\ sincePoll = 0
  /\ again = FALSE
  /\ tickPre = Pre

InitPath ==
  /\ NavIdle
  /\ address_n \in PathInputs
  /\ address_is_account \in BOOLEAN
  /\ coins \in Registries
  /\ path_str = ""
  /\ path_w = [buf |-> "none", lo |-> 0, hi |-> 0]
  /\ SplitIdle
  /\ pc = "input"

CallAddressNStr ==
  /\ pc = "input"
  /\ path_str' = address_n_str(address_n, address_is_account, coins)
  /\ path_w' = address_n_writes(address_n, address_is_account, coins)
  /\ pc' = "ret"
  /\ UNCHANGED <<navVars, address_n, address_is_account, coins, splitVars>>

NextPath == CallAddressNStr

SpecPath == InitPath /\ [][NextPath]_vars

(***************************************************************************)
(* split_message / split_message_hex.  Bytes are numbers 0..255; memory    *)
(* read through a pointer is the sequence of bytes from that address on    *)
(* (it holds the len caller bytes and then whatever follows them), and a   *)
(* C string is read up to its first NUL.  Offsets are 0-based as in C.     *)
(***************************************************************************)
Dot == 46                \* '.'
Space == 32              \* ' '
Tilde == 126             \* '~'

\* the C string at mem + off, without its NUL
CStr(mem, off) ==
  LET nul == {i \in (off + 1)..Len(mem) : mem[i] = 0}
      end == IF nul = {} THEN Len(mem) + 1
             ELSE CHOOSE i \in nul : \A j \in nul : i <= j
  IN  SubSeq(mem, off + 1, end - 1)

\* the bytes bs stored at offsets off, off + 1, .. of buf
WriteAt(buf, off, bs) ==
  [i \in 1..Len(buf) |->
     IF off < i /\ i <= off + Len(bs) THEN bs[i - off] ELSE buf[i]]

is_valid_ascii(data, size) ==
  \A i \in 1..size : ~(data[i] < Space \/ data[i] > Tilde)

\* strlcpy(str[k], (char *)msg + rowlen * k, rowlen + 1) on the buffer b
CopyRow(b, m, r, k) ==
  WriteAt(b, StrCols * k, strlcpy(CStr(m, r * k), r + 1) \o <<0>>)

\* the offsets in str of str[3][rowlen - 1], [rowlen - 2], [rowlen - 3];
\* for rowlen < 3 the unsigned index wraps and, with 32-bit addresses, the
\* byte addressed lies 1, 2 or 3 bytes before str[3]
MarkOffsets(r) ==
  {StrCols * 3 + r - 1, StrCols * 3 + r - 2, StrCols * 3 + r - 3}

\* the buffer after the call, the offsets written and those of the marker
split_message(m, l, w) ==
  LET r  == IF w > RowCap THEN RowCap ELSE w
      b0 == Zeros(StrSize)
      b1 == CopyRow(b0, m, r, 0)
      b2 == IF l > r THEN CopyRow(b1, m, r, 1) ELSE b1
      b3 == IF l > r * 2 THEN CopyRow(b2, m, r, 2) ELSE b2
      b4 == IF l > r * 3 THEN CopyRow(b3, m, r, 3) ELSE b3
      mk == IF l > r * 4 THEN MarkOffsets(r) ELSE {}
      b5 == [i \in 1..StrSize |-> IF (i - 1) \in mk THEN Dot ELSE b4[i]]
  IN  [str |-> b5, writes |-> (0..(StrSize - 1)) \cup mk, marks |-> mk]

\* ret[k]: the C string at str[k]
Line(buf, k) == CStr(buf, StrCols * k)
Lines(buf) == [k \in 0..(StrRows - 1) |-> Line(buf, k)]

\* one hexadecimal digit as a character
HexDigit(n) == IF n < 10 THEN 48 + n ELSE 55 + n

\* data2hex: two digits per byte
RECURSIVE data2hex(_)
data2hex(data) ==
  IF data = <<>> THEN <<>>
  ELSE <<HexDigit(Head(data) \div 16), HexDigit(Head(data) % 16)>>
       \o data2hex(Tail(data))

HexSize == RowCap * 2 + 1        \* char hex[32 * 2 + 1]
HexRow == 16

\* the marker written one byte further to the left
HexMark_Shifted(hex) == WriteAt(hex, HexSize - 4, <<Dot, Dot>>)

\* hex[63] = '.'; hex[62] = '.';
HexMark(hex) == WriteAt(hex, HexSize - 3, <<Dot, Dot>>)

split_message_hex(m, l) ==
  LET size == IF l > RowCap THEN RowCap ELSE l
      h0   == WriteAt(Zeros(HexSize), 0, data2hex(SubSeq(m, 1, size)))
      hex  == IF l > RowCap THEN HexMark(h0) ELSE h0
  IN  split_message(hex, size * 2, HexRow)

(***************************************************************************)
(* The dialogs that paginate message bytes: the pagination each one        *)
(* chooses and the result of the call it makes.                            *)
(***************************************************************************)
SignRow == 18
VerifyRow == 20
OpReturnRow == 20
CipherRow == 16

layoutSignMessage(m, l) ==
  IF ~is_valid_ascii(m, l)
  THEN [mode |-> "hex", r |-> split_message_hex(m, l)]
  ELSE [mode |-> "plain", r |-> split_message(m, l, SignRow)]

layoutVerifyMessage(m, l) ==
  IF ~is_valid_ascii(m, l)
  THEN [mode |-> "hex", r |-> split_message_hex(m, l)]
  ELSE [mode |-> "plain", r |-> split_message(m, l, VerifyRow)]

layoutConfirmOpReturn(m, l) ==
  IF ~is_valid_ascii(m, l)
  THEN [mode |-> "hex", r |-> split_message_hex(m, l)]
  ELSE [mode |-> "plain", r |-> split_message(m, l, OpReturnRow)]

layoutEncryptMessage(m, l) ==
  [mode |-> "plain", r |-> split_message(m, l, CipherRow)]

layoutDecryptMessage(m, l) ==
  [mode |-> "plain", r |-> split_message(m, l, CipherRow)]

\* split_message_hex(pubkey + 1, 32 * 2)
layoutPublicKey(pubkey) ==
  [mode |-> "hex", r |-> split_message_hex(Tail(pubkey), RowCap * 2)]

MessageDialogs ==
  {"layoutSignMessage", "layoutVerifyMessage", "layoutConfirmOpReturn",
   "layoutEncryptMessage", "layoutDecryptMessage"}

MessageDialog(f, m, l) ==
  CASE f = "layoutSignMessage" -> layoutSignMessage(m, l)
    [] f = "layoutVerifyMessage" -> layoutVerifyMessage(m, l)
    [] f = "layoutConfirmOpReturn" -> layoutConfirmOpReturn(m, l)
    [] f = "layoutEncryptMessage" -> layoutEncryptMessage(m, l)
    [] f = "layoutDecryptMessage" -> layoutDecryptMessage(m, l)

(***************************************************************************)
(* Calls of the pagination functions and of the dialogs.  The caller's     *)
(* bytes are the letters 'A'..'Z' in turn, with at most one byte replaced  *)
(* or the last three set to '.'; they are followed in memory either by a   *)
(* NUL or by other bytes.                                                  *)
(***************************************************************************)
MaxSmallRow == 4         \* row widths 0..MaxSmallRow, and those of RowLens
MaxFill == 34            \* bytes that follow the caller's bytes in memory

RowLens == (0..MaxSmallRow) \cup {10, 16, 32, 33, 40}
Specials == {0, Dot}
Unprintable == {0, 31, 127, 255}
Edges == {Space, Tilde}

Clamp(w) == IF w > RowCap THEN RowCap ELSE w

Lens(w) ==
  {l \in {0, 1, w - 1, w, w + 1, 3 * w, 3 * w + 1, 4 * w - 1, 4 * w,
          4 * w + 1, 4 * w + 5} : l >= 0}
HexLens == {0, 1, 8, 9, 31, 32, 33, 40, 64}
DialogLens == {0, 1, 2, 19, 33}

Letter(i) == 65 + (i % 26)
Lower(i) == 97 + (i % 26)

NoSub == [kind |-> "none", pos |-> 0, byte |-> 0]
Subs(l, ps, bs) ==
  {NoSub}
  \cup {[kind |-> "byte", pos |-> p, byte |-> b] :
          p \in {q \in ps : 0 <= q /\ q < l}, b \in bs}
  \cup (IF l >= 3 THEN {[kind |-> "dots", pos |-> 0, byte |-> 0]} ELSE {})

Data(l, sub) ==
  [i \in 1..l |->
     IF sub.kind = "byte" /\ i - 1 = sub.pos THEN sub.byte
     ELSE IF sub.kind = "dots" /\ i > l - 3 THEN Dot
     ELSE Letter(i - 1)]

Tails == {<<0>>, [i \in 1..(MaxFill + 1) |-> IF i > MaxFill THEN 0 ELSE 122]}

SplitInputs ==
  UNION {UNION {{[fn |-> "split_message", msg |-> Data(l, sub) \o t,
                  len |-> l, rowlen |-> w] :
                   sub \in Subs(l, {0, l - 1, 3 * Clamp(w), 3 * Clamp(w) + 1},
                                Specials),
                   t \in Tails} : l \in Lens(Clamp(w))} : w \in RowLens}

HexInputs ==
  UNION {{[fn |-> "split_message_hex", msg |-> Data(l, sub) \o t,
           len |-> l, rowlen |-> 0] :
            sub \in Subs(l, {0, l - 1}, Unprintable), t \in Tails} :
           l \in HexLens}

DialogInputs ==
  UNION {{[fn |-> f, msg |-> Data(l, sub) \o t, len |-> l, rowlen |-> 0] :
            f \in MessageDialogs,
            sub \in Subs(l, {0, l - 1}, Unprintable \cup Edges),
            t \in Tails} : l \in DialogLens}

\* public keys: the prefix byte and 32 key bytes
PubkeyInputs ==
  {[fn |-> "layoutPublicKey", msg |-> <<p>> \o Data(RowCap, sub) \o t,
    len |-> RowCap + 1, rowlen |-> 0] :
     p \in {1, 2}, sub \in Subs(RowCap, {0, RowCap - 1}, Unprintable),
     t \in Tails}

\* the inputs of a second call, made while the result of the first is held
SecondInputs ==
  {[fn |-> f, msg |-> [i \in 1..l |-> Lower(i - 1)] \o <<0>>, len |-> l,
    rowlen |-> 10] :
     f \in {"split_message", "split_message_hex"}, l \in {0, 5, 45}}

SetInput(c) ==
  /\ fn' = c.fn
  /\ msg' = c.msg
  /\ len' = c.len
  /\ rowlen' = c.rowlen

InitSplit ==
  /\ NavIdle
  /\ PathIdle
  /\ \E c \in SplitInputs \cup HexInputs \cup DialogInputs \cup PubkeyInputs :
       /\ fn = c.fn
       /\ msg = c.msg
       /\ len = c.len
       /\ rowlen = c.rowlen
  /\ ui_language \in BOOLEAN
  /\ str = Zeros(StrSize)
  /\ writes = {}
  /\ marks = {}
  /\ mode = "none"
  /\ shown = <<>>
  /\ held = <<>>
  /\ pc = "s_input"

Return(r) ==
  /\ str' = r.str
  /\ writes' = r.writes
  /\ marks' = r.marks
  /\ pc' = "s_ret"

CallSplitMessage ==
  /\ pc = "s_input" /\ fn = "split_message"
  /\ Return(split_message(msg, len, rowlen))
  /\ UNCHANGED <<navVars, pathVars, fn, msg, len, rowlen, ui_language, mode,
                 shown, held>>

CallSplitMessageHex ==
  /\ pc = "s_input" /\ fn = "split_message_hex"
  /\ Return(split_message_hex(msg, len))
  /\ UNCHANGED <<navVars, pathVars, fn, msg, len, rowlen, ui_language, mode,
                 shown, held>>

\* a message dialog: it paginates, then layoutDialogSwipe or
\* layoutDialogSwipe_zh (by ui_language) shows the four lines
CallMessageDialog ==
  /\ pc = "s_input" /\ fn \in MessageDialogs
  /\ LET d == MessageDialog(fn, msg, len)
     IN  /\ Return(d.r)
         /\ mode' = d.mode
         /\ shown' = Lines(d.r.str)
  /\ layoutLast' = "layoutDialogSwipe"
  /\ UNCHANGED <<info_page, system_millis, system_millis_lock_start,
                 system_millis_display_info_start, system_millis_logo_refresh,
                 autoLockDelayMs, powered, lastOp, tickPre, tickIn, calls,
                 elapsed, shorts, sinceHome, sinceButton, sinceInfo,
                 sincePoll, again, pathVars, fn, msg, len, rowlen,
                 ui_language, held>>

\* layoutPublicKey: the hex lines of the key, shown by layoutDialogSwipe
CallLayoutPublicKey ==
  /\ pc = "s_input" /\ fn = "layoutPublicKey"
  /\ LET d == layoutPublicKey(msg)
     IN  /\ Return(d.r)
         /\ mode' = d.mode
         /\ shown' = Lines(d.r.str)
  /\ layoutLast' = "layoutDialogSwipe"
  /\ UNCHANGED <<info_page, system_millis, system_millis_lock_start,
                 system_millis_display_info_start, system_millis_logo_refresh,
                 autoLockDelayMs, powered, lastOp, tickPre, tickIn, calls,
                 elapsed, shorts, sinceHome, sinceButton, sinceInfo,
                 sincePoll, again, pathVars, fn, msg, len, rowlen,
                 ui_language, held>>

\* the caller keeps the four pointers it got and calls again
CallAgain ==
  /\ pc = "s_ret" /\ fn \in {"split_message", "split_message_hex"}
  /\ held = <<>>
  /\ held' = <<[lines |-> Lines(str), fn |-> fn, msg |-> msg, len |-> len,
                rowlen |-> rowlen]>>
  /\ \E c \in SecondInputs : SetInput(c)
  /\ pc' = "s_input"
  /\ UNCHANGED <<navVars, pathVars, ui_language, str, writes, marks, mode,
                 shown>>

NextSplit ==
  \/ CallSplitMessage \/ CallSplitMessageHex \/ CallMessageDialog
  \/ CallLayoutPublicKey \/ CallAgain

SpecSplit == InitSplit /\ [][NextSplit]_vars

(***************************************************************************)
(* What the properties below say about the last operation.                 *)
(***************************************************************************)
Ticked == lastOp = "tick"
Refreshed == tickIn.layoutNeedRefresh
Delay == Val(autoLockDelayMs)
Count(b) == (IF b.NoUp THEN 1 ELSE 0) + (IF b.YesUp THEN 1 ELSE 0)
            + (IF b.UpUp THEN 1 ELSE 0) + (IF b.DownUp THEN 1 ELSE 0)

\* the screen, the info page and the three timers are as before the tick
Untouched ==
  /\ layoutLast = tickPre.layoutLast
  /\ info_page = tickPre.info_page
  /\ system_millis_lock_start = tickPre.lock_start
  /\ system_millis_display_info_start = tickPre.info_start
  /\ system_millis_logo_refresh = tickPre.logo_refresh

\* the screen (with its page, on the device-info screen) is as before
SameScreen ==
  /\ layoutLast = tickPre.layoutLast
  /\ layoutLast = "layoutDeviceInfo" => info_page = tickPre.info_page

\* a timer that the tick evaluates on the screen it starts on has expired
TimerExpired ==
  \/ /\ tickPre.layoutLast = "layoutHome"
     /\ tickPre.sinceHome >= Delay \/ tickPre.sincePoll >= LogoRefreshMs
  \/ /\ tickPre.layoutLast = "layoutDeviceInfo"
     /\ tickPre.sinceInfo >= InfoDisplayMs

\* C1 (as claimed): a tick that starts on a screen other than Home and
\* Screensaver, with the cancel edge set, calls signing_abort once and
\* recovery_abort once and leaves the screen as it was.
C1_AsClaimed ==
  (Ticked /\ tickPre.layoutLast \notin {"layoutHome", "layoutScreensaver"}
     /\ tickIn.button.NoUp)
  => (calls.signing_abort = 1 /\ calls.recovery_abort = 1 /\ SameScreen)

\* C1 (amended): a tick that starts on a dialog (not Home, Screensaver or the
\* device-info page) and on which layoutNeedRefresh() is false, with the
\* cancel edge set, calls signing_abort once and recovery_abort once and
\* leaves the screen as it was.
C1_DialogCancelAborts ==
  (Ticked /\ tickPre.layoutLast \in Dialogs /\ tickIn.button.NoUp
     /\ ~Refreshed)
  => (calls.signing_abort = 1 /\ calls.recovery_abort = 1 /\ SameScreen)

C1_Witness ==
  /\ Ticked /\ tickPre.layoutLast = "layoutDialogSwipe" /\ ~Refreshed
  /\ tickIn.button.NoUp /\ tickIn.button.UpUp
  /\ calls.signing_abort = 1 /\ calls.recovery_abort = 1
  /\ layoutLast = "layoutDialogSwipe"

\* C2 (as claimed, for ticks without a home refresh, which restarts the lock
\* timer): a tick that starts in Home with no button edge and at least
\* autoLockDelayMs since the lock timer was reset runs the lock check; when
\* the check reads transport present the tick calls session_clear exactly
\* once and ends in Screensaver, when it reads transport absent the tick
\* calls shutdown exactly once.
C2_AutoLock ==
  (Ticked /\ tickPre.layoutLast = "layoutHome" /\ ~AnyUp(tickIn.button)
     /\ ~Refreshed /\ tickPre.sinceHome >= Delay)
  => /\ Len(calls.lock) = 1
     /\ calls.lock[1] => (calls.session_clear = 1
                          /\ layoutLast = "layoutScreensaver")
     /\ ~calls.lock[1] => calls.shutdown = 1

\* C3 (as claimed): a tick that starts in Screensaver with a button edge set
\* ends in Home and calls neither signing_abort nor recovery_abort.
C3_AsClaimed ==
  (Ticked /\ tickPre.layoutLast = "layoutScreensaver" /\ AnyUp(tickIn.button))
  => (layoutLast = "layoutHome" /\ calls.signing_abort = 0
      /\ calls.recovery_abort = 0)

\* C3 (amended): a tick that starts in Screensaver with a button edge set and
\* on which layoutNeedRefresh() is false renders Home once and ends in Home;
\* it calls recovery_abort, signing_abort and session_clear exactly once each
\* when the layoutStatusLogo(true) call of that rendering returns true, and
\* makes none of these calls otherwise.
C3_WakeToHome ==
  (Ticked /\ tickPre.layoutLast = "layoutScreensaver" /\ AnyUp(tickIn.button)
     /\ ~Refreshed)
  => /\ layoutLast = "layoutHome"
     /\ calls.layoutHome = 1
     /\ Len(calls.layoutStatusLogo) = 1
     /\ LET k == IF calls.layoutStatusLogo[1].result THEN 1 ELSE 0
        IN  /\ calls.signing_abort = k
            /\ calls.recovery_abort = k
            /\ calls.session_clear = k

C3_Witness ==
  /\ Ticked /\ tickPre.layoutLast = "layoutScreensaver" /\ ~Refreshed
  /\ tickIn.button.DownUp /\ Count(tickIn.button) = 1
  /\ layoutLast = "layoutHome"
  /\ calls.signing_abort = 1

\* C4 (as claimed, for ticks without a home refresh): a tick that starts on
\* the device-info screen at least 10 000 ms after it was entered ends in
\* Home, whatever button edges are set.
C4_InfoTimeout ==
  (Ticked /\ tickPre.layoutLast = "layoutDeviceInfo" /\ ~Refreshed
     /\ tickPre.sinceInfo >= InfoDisplayMs)
  => layoutLast = "layoutHome"

\* C5 (as claimed): a tick with a button edge set, and every entry into
\* Home, leaves system_millis_lock_start equal to the current time; the lock
\* check fires only when at least autoLockDelayMs have passed since the most
\* recent button edge.
C5_AsClaimed ==
  /\ (Ticked /\ AnyUp(tickIn.button))
     => system_millis_lock_start = system_millis
  /\ (lastOp \in {"tick", "home"} /\ calls.layoutHome > 0)
     => system_millis_lock_start = system_millis
  /\ (Ticked /\ calls.lock # <<>>)
     => (~AnyUp(tickIn.button) /\ tickPre.sinceButton >= Delay)

\* C5 (amended): every call of layoutHome (every entry into Home) leaves
\* system_millis_lock_start equal to the current time, and an operation that
\* does not call layoutHome leaves it unchanged, button edge or not; the
\* lock check fires only when at least autoLockDelayMs have passed since the
\* most recent call of layoutHome.
C5_LockTimerResetByHome ==
  /\ (lastOp \in {"tick", "home"} /\ calls.layoutHome > 0)
     => (system_millis_lock_start = system_millis /\ sinceHome = 0)
  /\ (lastOp \in {"tick", "home", "dialog"} /\ calls.layoutHome = 0)
     => system_millis_lock_start = tickPre.lock_start
  /\ (Ticked /\ calls.lock # <<>>) => tickPre.sinceHome >= Delay

C5_Witness ==
  /\ Ticked /\ tickIn.button.YesUp /\ Count(tickIn.button) = 1
  /\ calls.lock = <<TRUE>>
  /\ tickPre.sinceButton < Delay
  /\ tickPre.sinceHome >= Delay

\* C6 (as claimed): when a tick without button edge directly follows a tick
\* without button edge, at the same clock value, the second tick makes no
\* call and leaves the screen, the info page and the timers unchanged.
C6_AsClaimed ==
  (Ticked /\ tickPre.again /\ ~AnyUp(tickIn.button))
  => (calls = NoCalls /\ Untouched)

\* C6 (amended): the same, for a second tick on which layoutNeedRefresh()
\* is false.
C6_SecondTickIdle ==
  (Ticked /\ tickPre.again /\ ~AnyUp(tickIn.button) /\ ~Refreshed)
  => (calls = NoCalls /\ Untouched)

C6_Witness ==
  /\ Ticked /\ tickPre.again /\ ~AnyUp(tickIn.button) /\ ~Refreshed
  /\ layoutLast = "layoutHome"
  /\ tickPre.sincePoll = 0 /\ elapsed >= LogoRefreshMs
  /\ calls = NoCalls

\* the pairs (screen, button edges) without a row in the transition table
NoRow ==
  \/ /\ tickPre.layoutLast = "layoutHome"
     /\ ~tickIn.button.UpUp /\ ~tickIn.button.DownUp
  \/ /\ tickPre.layoutLast = "layoutDeviceInfo"
     /\ ~tickIn.button.UpUp /\ ~tickIn.button.DownUp /\ ~tickIn.button.NoUp
  \/ /\ tickPre.layoutLast \in Dialogs
     /\ ~tickIn.button.NoUp
  \/ /\ tickPre.layoutLast = "layoutScreensaver"
     /\ ~AnyUp(tickIn.button)

\* C7 (as claimed): a tick on a pair (screen, button edges) without a row in
\* the transition table, on which no timer has expired, makes no call and
\* leaves the screen, the info page and the timers unchanged.
C7_AsClaimed ==
  (Ticked /\ NoRow /\ ~TimerExpired) => (calls = NoCalls /\ Untouched)

\* C7 (amended): the same, for a tick on which layoutNeedRefresh() is false.
C7_UncoveredIsNoOp ==
  (Ticked /\ NoRow /\ ~TimerExpired /\ ~Refreshed)
  => (calls = NoCalls /\ Untouched)

C7_Witness ==
  /\ Ticked /\ ~Refreshed /\ ~TimerExpired
  /\ tickPre.layoutLast = "layoutDeviceInfo" /\ tickPre.info_page = 2
  /\ tickIn.button.YesUp /\ Count(tickIn.button) = 1
  /\ tickPre.sinceInfo > 0
  /\ calls = NoCalls /\ Untouched

\* C8 (as claimed): a tick that starts in Home at least 1000 ms after the
\* last status poll and whose poll returns true calls signing_abort,
\* recovery_abort and session_clear, renders Home and ends in Home; the poll
\* is made only while the screen is Home, at most once per tick and never
\* sooner than 1000 ms after the previous poll.
C8_StatusPoll ==
  Ticked =>
    /\ \A i \in Polls(calls) :
         /\ calls.layoutStatusLogo[i].on = "layoutHome"
         /\ (tickPre.layoutLast = "layoutHome"
             /\ tickPre.sincePoll >= LogoRefreshMs
             /\ calls.layoutStatusLogo[i].result)
            => (calls.signing_abort >= 1 /\ calls.recovery_abort >= 1
                /\ calls.session_clear >= 1 /\ calls.layoutHome >= 1
                /\ layoutLast = "layoutHome")
    /\ Cardinality(Polls(calls)) <= 1
    /\ Polls(calls) # {} => tickPre.sincePoll >= LogoRefreshMs

\* the screen and page that C9 names for the (screen, page, single edge)
C9_Expected(screen, n, b) ==
  IF screen = "layoutHome"
  THEN IF b.UpUp THEN <<"layoutDeviceInfo", DEVICE_INFO_PAGE_NUM>>
       ELSE <<"layoutDeviceInfo", 1>>
  ELSE IF b.UpUp
       THEN IF n > 1 THEN <<"layoutDeviceInfo", n - 1>>
            ELSE <<"layoutHome", 0>>
       ELSE IF b.DownUp
       THEN IF n < DEVICE_INFO_PAGE_NUM THEN <<"layoutDeviceInfo", n + 1>>
            ELSE <<"layoutHome", 0>>
       ELSE <<"layoutHome", 0>>

C9_Case ==
  /\ Ticked /\ ~TimerExpired /\ Count(tickIn.button) = 1
  /\ \/ /\ tickPre.layoutLast = "layoutHome"
        /\ tickIn.button.UpUp \/ tickIn.button.DownUp
     \/ /\ tickPre.layoutLast = "layoutDeviceInfo"
        /\ tickPre.info_page \in 1..DEVICE_INFO_PAGE_NUM
        /\ tickIn.button.UpUp \/ tickIn.button.DownUp \/ tickIn.button.NoUp

C9_Result ==
  <<layoutLast, info_page>>
    = C9_Expected(tickPre.layoutLast, tickPre.info_page, tickIn.button)

\* C9 (as claimed): with no timer expired and exactly one button edge, Home
\* goes to page 4 on prev and to page 1 on next; page n goes to page n-1 on
\* prev (Home for n = 1), to page n+1 on next (Home for n = 4) and to Home
\* on cancel.
C9_AsClaimed == C9_Case => C9_Result

\* C9 (amended): the same, for a tick on which layoutNeedRefresh() is false.
C9_Navigation == (C9_Case /\ ~Refreshed) => C9_Result

C9_Witness ==
  /\ C9_Case /\ ~Refreshed
  /\ tickPre.layoutLast = "layoutDeviceInfo" /\ tickPre.info_page = 1
  /\ tickIn.button.UpUp
  /\ layoutLast = "layoutHome" /\ info_page = 0

(***************************************************************************)
(* Properties of address_n_str (specification SpecPath).                   *)
(***************************************************************************)
Returned == pc = "ret"
BtcRegistered ==
  \E e \in coins : /\ e.coin_type = H(0) /\ e.coin_shortcut = " BTC"
                   /\ e.has_segwit
BtcBech32 == \E e \in coins : e.coin_type = H(0) /\ e.bech32_prefix # NULL
FirstAccount(purpose) == <<H(purpose), H(0), H(0), N(0), N(0)>>

\* C10 (as claimed): with coin type 0 registered as BTC, segwit-capable,
\* 44'/0'/0'/0/0 at account level false gives "BTC legacy account #01" and
\* 84'/0'/0'/0/0 gives "BTC segwit account #01".
C10_AsClaimed ==
  (Returned /\ BtcRegistered /\ ~address_is_account)
  => /\ address_n = FirstAccount(44) => path_str = "BTC legacy account #01"
     /\ address_n = FirstAccount(84) => path_str = "BTC segwit account #01"

\* C10 (amended): with coin type 0 registered as BTC, segwit-capable,
\* 44'/0'/0'/0/0 at account level false gives "BTC legacy account #1" and,
\* when the coin also has a bech32 prefix, 84'/0'/0'/0/0 gives
\* "BTC segwit account #1"; every label with an account number below 10
\* ends in '#' and that single digit, without a leading zero.
C10_SingleDigitAccount ==
  /\ (Returned /\ BtcRegistered /\ ~address_is_account)
     => /\ address_n = FirstAccount(44)
           => path_str = "BTC legacy account #1"
        /\ (address_n = FirstAccount(84) /\ BtcBech32)
           => path_str = "BTC segwit account #1"
  /\ (Returned /\ KnownPath(address_n)
        /\ Abbr(address_n, coins).abbr # NULL
        /\ AccNum(address_n, address_is_account) < 10)
     => LET n == Len(path_str)
        IN  /\ SubSeq(path_str, n - 1, n - 1) = "#"
            /\ SubSeq(path_str, n, n)
                 = DigitChar(AccNum(address_n, address_is_account))

C10_Witness ==
  /\ Returned /\ BtcRegistered /\ BtcBech32 /\ ~address_is_account
  /\ address_n = FirstAccount(84)
  /\ path_str = "BTC segwit account #1"

(***************************************************************************)
(* Properties of split_message and split_message_hex (specification        *)
(* SpecSplit).                                                             *)
(***************************************************************************)
SplitReturned == pc = "s_ret" /\ fn = "split_message"
HexReturned == pc = "s_ret" /\ fn = "split_message_hex"
Width == Clamp(rowlen)
Input == SubSeq(msg, 1, len)
Min(a, b) == IF a < b THEN a ELSE b

\* C11: for every row width and every input length split_message writes
\* only inside its 4 x 33-byte buffer, and the three '.' characters of the
\* truncation marker are always written inside line 3 (the last 33 bytes).
C11_WritesInsideBuffer ==
  SplitReturned
  => /\ writes \subseteq 0..(StrSize - 1)
     /\ marks \subseteq (StrCols * 3)..(StrSize - 1)

\* C12: for a row width w in 1..32 and len <= 4 * w, line k (k = 0..3) is
\* the input bytes [k * w, min(len, (k + 1) * w)), lines past the end of the
\* input are empty and no line is longer than w, whatever the byte values
\* (a zero byte included) and whatever follows the len bytes in memory.
C12_LinesAreChunks ==
  (SplitReturned /\ rowlen \in 1..RowCap /\ len <= 4 * rowlen)
  => \A k \in 0..3 :
       /\ Line(str, k)
            = SubSeq(Input, k * rowlen + 1, Min(len, (k + 1) * rowlen))
       /\ Len(Line(str, k)) <= rowlen

EndsWithDots(s) ==
  Len(s) >= 3 /\ \A j \in (Len(s) - 2)..Len(s) : s[j] = Dot

\* C13: for a row width w in 3..32, line 3 ends with "..." (the last three
\* of its w characters) if and only if len > 4 * w; with len = 4 * w line 3
\* is the bytes 3 * w .. 4 * w - 1 of the input.
C13_MarkerIffTooLong ==
  (SplitReturned /\ rowlen \in 3..RowCap)
  => /\ EndsWithDots(Line(str, 3)) <=> len > 4 * rowlen
     /\ len > 4 * rowlen => Len(Line(str, 3)) = rowlen
     /\ len = 4 * rowlen
        => Line(str, 3) = SubSeq(Input, 3 * rowlen + 1, 4 * rowlen)

\* the characters of the four lines, one after the other
Shown4(buf) == Line(buf, 0) \o Line(buf, 1) \o Line(buf, 2) \o Line(buf, 3)
HexCount == 2 * Min(len, RowCap)
\* the j-th character (1-based) of the hexadecimal text of the input
HexChar(j) ==
  LET b == msg[(j + 1) \div 2]
  IN  HexDigit(IF j % 2 = 1 THEN b \div 16 ELSE b % 16)

\* C14: split_message_hex returns lines of at most 16 characters that hold,
\* in order, the hex digits of all len bytes when len <= 32, and of the
\* first 32 bytes with only characters 63 and 64 replaced by ".." when
\* len > 32; the pager writes no "..." marker.
C14_HexLines ==
  HexReturned
  => /\ Len(Shown4(str)) = HexCount
     /\ \A k \in 0..3 :
          Len(Line(str, k)) = Min(HexRow, HexCount - Min(HexCount, HexRow * k))
     /\ \A j \in 1..HexCount :
          Shown4(str)[j] = IF len > RowCap /\ j > HexCount - 2 THEN Dot
                           ELSE HexChar(j)
     /\ marks = {}

C14_Witness ==
  /\ HexReturned /\ len = RowCap + 1
  /\ \E i \in 1..len : msg[i] = 255
  /\ Line(str, 3)[HexRow - 1] = Dot /\ Line(str, 3)[HexRow] = Dot
  /\ Line(str, 3)[HexRow - 2] # Dot

\* C15: the four lines returned by one call are not changed by a later
\* call: after a call A and a call B with a different input, the lines got
\* from A still are the pagination of the input of A.
C15_HeldLinesUnchanged ==
  (pc = "s_ret" /\ held # <<>>)
  => (<<held[1].fn, held[1].msg, held[1].len, held[1].rowlen>>
        # <<fn, msg, len, rowlen>>
      => Lines(str) = held[1].lines)

\* C16: every dialog that paginates raw message bytes (sign, verify,
\* OP_RETURN, encrypt, decrypt) paginates in hex when at least one of the
\* len bytes is outside 0x20..0x7E and plainly when all are printable.
C16_HexIffUnprintable ==
  (pc = "s_ret" /\ fn \in MessageDialogs)
  => (mode = "hex" <=> \E i \in 1..len : msg[i] \notin Space..Tilde)

(***************************************************************************)
(* Further properties of address_n_str (specification SpecPath).           *)
(***************************************************************************)
StartsWith(s, t) == Len(s) >= Len(t) /\ SubSeq(s, 1, Len(t)) = t
EndsWith(s, t) ==
  Len(s) >= Len(t) /\ SubSeq(s, Len(s) - Len(t) + 1, Len(s)) = t
Contains(s, t) ==
  \E i \in 1..(Len(s) - Len(t) + 1) : SubSeq(s, i, i + Len(t) - 1) = t

\* the decimal numeral of n, most significant digit first
RECURSIVE Dec(_)
Dec(n) == IF n < 10 THEN DigitChar(n) ELSE Dec(n \div 10) \o DigitChar(n % 10)

\* "Path: m/i0/i1/../in" written from the first component to the last
RECURSIVE RawText(_)
RawText(a) ==
  IF a = <<>> THEN "Path: m"
  ELSE LET i == a[Len(a)]
       IN  RawText(SubSeq(a, 1, Len(a) - 1)) \o "/" \o Dec(i.v)
             \o (IF i.h THEN "'" ELSE "")

Registered == \E e \in coins : e.coin_type = address_n[2]
Entry == CHOOSE e \in coins : e.coin_type = address_n[2]
Ticker == Tail(Entry.coin_shortcut)
IsLabel == ~StartsWith(path_str, "Path: m")
shownNumber ==
  IF address_is_account THEN address_n[5].v + 1 ELSE address_n[3].v + 1

\* C17: every path with more than 8 components gives "Unknown long path",
\* whatever its components and the account-level flag, and the empty path
\* gives "Path: m".
C17_LongAndEmptyPaths ==
  Returned
  => /\ Len(address_n) > 8 => path_str = "Unknown long path"
     /\ Len(address_n) = 0 => path_str = "Path: m"

C17_Witness ==
  /\ Returned /\ Len(address_n) = 9 /\ address_is_account
  /\ \E n \in 1..9 : address_n[n] = H(2147483647)
  /\ path_str = "Unknown long path"

\* a label made of the ticker t: t, then a space
LabelOf(t) == StartsWith(path_str, t \o " ")

\* C18 (as claimed): for a canonical 5-component path the extras table
\* supplies the ticker only when the purpose is 44 and the registry has no
\* entry for the coin type; for purpose 49 or 84 and an unregistered coin
\* type the result is the raw path; whenever the registry has an entry its
\* ticker is used.
C18_AsClaimed ==
  (Returned /\ KnownPath(address_n))
  => /\ (~Registered /\ address_n[1] # H(44))
        => path_str = RawText(address_n)
     /\ (~Registered /\ IsLabel)
        => /\ address_n[1] = H(44)
           /\ LabelOf(slip44_extras(address_n[2]))
     /\ Registered => LabelOf(Ticker)

\* C18 (amended): for a canonical 5-component path the extras table
\* supplies the ticker only when the purpose is 44 and the registry has no
\* entry for the coin type, and then the label is that ticker, the noun and
\* the number when the number is below 100; for purpose 49 or 84 and an
\* unregistered coin type the result is the raw path; when the registry has
\* an entry the extras table is not consulted: the result is a label of the
\* registry's ticker when the number is below 100 and the purpose is 44, or
\* 49 with a segwit-capable coin, or 84 with a segwit-capable coin that has
\* a bech32 prefix, and the raw path otherwise.
C18_ExtrasOnlyForUnregistered44 ==
  (Returned /\ KnownPath(address_n))
  => /\ (~Registered /\ address_n[1] # H(44))
        => path_str = RawText(address_n)
     /\ (~Registered /\ IsLabel)
        => /\ address_n[1] = H(44)
           /\ LabelOf(slip44_extras(address_n[2]))
     /\ (~Registered /\ address_n[1] = H(44) /\ shownNumber < 100
           /\ slip44_extras(address_n[2]) # NULL)
        => path_str = slip44_extras(address_n[2])
                        \o (IF address_is_account THEN " address #"
                            ELSE " account #") \o Dec(shownNumber)
     /\ Registered
        => IF /\ shownNumber < 100
              /\ \/ address_n[1] = H(44)
                 \/ address_n[1] = H(49) /\ Entry.has_segwit
                 \/ /\ address_n[1] = H(84) /\ Entry.has_segwit
                    /\ Entry.bech32_prefix # NULL
           THEN LabelOf(Ticker)
           ELSE path_str = RawText(address_n)

C18_Witness ==
  /\ Returned /\ ~address_is_account /\ ~Registered
  /\ address_n = <<H(44), H(60), H(0), N(0), N(0)>>
  /\ path_str = "ETH account #1"

\* C19: a canonical path rendered as a coin label contains " legacy"
\* exactly when the purpose is 44 and the registered coin supports segwit,
\* " segwit" exactly when the purpose is 84, neither for purpose 49; its
\* noun is "address" exactly when address_is_account and "account"
\* otherwise; the number shown is path[4] + 1 when address_is_account and
\* path[2] + 1 otherwise, without the hardened bit.
C19_LabelWords ==
  (Returned /\ KnownPath(address_n) /\ IsLabel)
  => /\ Contains(path_str, " legacy")
          <=> (address_n[1] = H(44) /\ Registered /\ Entry.has_segwit)
     /\ Contains(path_str, " segwit") <=> address_n[1] = H(84)
     /\ Contains(path_str, " address #") <=> address_is_account
     /\ Contains(path_str, " account #") <=> ~address_is_account
     /\ EndsWith(path_str, "#" \o Dec(shownNumber))

C19_Witness ==
  /\ Returned /\ address_is_account /\ Registered /\ Entry.has_segwit
  /\ address_n = <<H(44), H(0), H(9), N(0), N(8)>>
  /\ path_str = "BTC legacy address #9"

\* a ticker is resolved for the canonical path
Resolved ==
  IF Registered
  THEN \/ address_n[1] = H(44)
       \/ address_n[1] = H(49) /\ Entry.has_segwit
       \/ address_n[1] = H(84) /\ Entry.has_segwit
            /\ Entry.bech32_prefix # NULL
  ELSE address_n[1] = H(44) /\ slip44_extras(address_n[2]) # NULL

\* C20: every path of 1..8 components that is not rendered as a coin label
\* (it is not canonical, or no ticker was resolved, or the number is 100 or
\* more) is rendered as "Path: m/i0/i1/../in": the components in path
\* order, each as its decimal value without the hardened bit, with a '
\* after exactly the hardened ones.
C20_RawRendering ==
  (Returned /\ Len(address_n) \in 1..8)
  => /\ ~(KnownPath(address_n) /\ Resolved /\ shownNumber < 100)
        => path_str = RawText(address_n)
     /\ IsLabel \/ path_str = RawText(address_n)

C20_Witness ==
  /\ Returned /\ Len(address_n) = 8
  /\ \A n \in 1..8 : address_n[n] = H(2147483647)
  /\ Len(path_str) = AddressStrSize - 1
  /\ StartsWith(path_str, "Path: m/2147483647'/2147483647'")

MaxComponent == H(2147483647)

\* C21: for every path of 0..8 components and either value of
\* address_is_account, address_n_str returns a NUL-terminated string and
\* writes only inside path[100] or address_str[104]; the longest raw
\* rendering, 8 hardened components of 10 digits, starts at the first byte
\* of address_str.
C21_WritesInsideBuffers ==
  (Returned /\ Len(address_n) <= 8)
  => /\ path_w.buf = "path"
        => /\ 0 <= path_w.lo /\ path_w.hi < PathBufSize
           /\ Len(path_str) < PathBufSize
     /\ path_w.buf = "address_str"
        => /\ 0 <= path_w.lo /\ path_w.hi < AddressStrSize
           /\ Len(path_str) = path_w.hi - path_w.lo
     /\ path_w.buf = "none" => path_str \in {"Path: m"}
     /\ (Len(address_n) = 8 /\ \A n \in 1..8 : address_n[n] = MaxComponent)
        => path_w.buf = "address_str" /\ path_w.lo = 0

C21_Witness ==
  /\ Returned /\ Len(address_n) = 8
  /\ \A n \in 1..8 : address_n[n] = MaxComponent
  /\ path_w = [buf |-> "address_str", lo |-> 0, hi |-> AddressStrSize - 1]
  /\ EndsWith(path_str, "/2147483647'")

(***************************************************************************)
(* Further properties of the navigation (specification Spec).              *)
(***************************************************************************)
LockFired ==
  calls.lock # <<>> \/ calls.layoutScreensaver > 0 \/ calls.shutdown > 0

\* C22: the auto-lock actions (session_clear of the lock check,
\* layoutScreensaver, shutdown) happen only on a tick whose lock check runs
\* with Home as the current screen: they happen only on ticks that start on
\* Home, and a tick that starts on a dialog, or on the device-info screen
\* less than 10 s after it was rendered, never enters the screensaver and
\* never powers off, however long ago the last activity was.
C22_LockOnlyOnHome ==
  Ticked
  => /\ LockFired => tickPre.layoutLast = "layoutHome"
     /\ (\/ tickPre.layoutLast \in Dialogs
         \/ /\ tickPre.layoutLast = "layoutDeviceInfo"
            /\ tickPre.sinceInfo < InfoDisplayMs)
        => /\ ~LockFired
           /\ layoutLast # "layoutScreensaver"
           /\ powered

C22_Witness ==
  /\ Ticked /\ ~Refreshed /\ ~AnyUp(tickIn.button)
  /\ tickPre.layoutLast \in Dialogs
  /\ tickPre.sinceHome >= Delay /\ tickPre.sinceButton >= Delay
  /\ layoutLast = tickPre.layoutLast /\ powered /\ ~LockFired

\* C23: info_page is always in 0..4; layoutHomeInfo never calls
\* layoutDeviceInfo with page 0 or a page above 4; and after every tick
\* the device-info screen is current only with info_page in 1..4.
C23_InfoPageRange ==
  /\ info_page \in 0..DEVICE_INFO_PAGE_NUM
  /\ \A i \in 1..Len(calls.layoutDeviceInfo) :
       calls.layoutDeviceInfo[i] \in 1..DEVICE_INFO_PAGE_NUM
  /\ (Ticked /\ layoutLast = "layoutDeviceInfo")
     => info_page \in 1..DEVICE_INFO_PAGE_NUM

\* the clock has wrapped between the stored start time t and now
Wrapped(t) == t.hi = W16 - 1 /\ system_millis.hi = 0

\* C24: the three elapsed-time tests of the tick (10 s on the device-info
\* screen, the auto-lock delay, the 1 s status poll) give the result that
\* the true elapsed time calls for, also when the 32-bit millisecond clock
\* has wrapped between the stored start time and now: on a tick without
\* button edge and without home refresh the timeout fires exactly when the
\* true elapsed time has reached its period.
C24_ElapsedModulo ==
  (Ticked /\ ~Refreshed /\ ~AnyUp(tickIn.button))
  => /\ tickPre.layoutLast = "layoutDeviceInfo"
        => (layoutLast = "layoutHome" <=> tickPre.sinceInfo >= InfoDisplayMs)
     /\ tickPre.layoutLast = "layoutHome"
        => (calls.lock # <<>> <=> tickPre.sinceHome >= Delay)
     /\ (tickPre.layoutLast = "layoutHome" /\ powered)
        => (Polls(calls) # {} <=> tickPre.sincePoll >= LogoRefreshMs)

C24_Witness ==
  /\ Ticked /\ ~Refreshed /\ ~AnyUp(tickIn.button)
  /\ tickPre.layoutLast = "layoutHome"
  /\ Wrapped(tickPre.lock_start) /\ Wrapped(tickPre.logo_refresh)
  /\ tickPre.sinceHome >= Delay /\ calls.lock # <<>>
  /\ Polls(calls) # {}

DialogShown == lastOp \in {"dialog", "layoutU2FDialog"}

\* C25: after any dialog-rendering entry point has returned
\* (layoutDialogSwipe, layoutDialogSwipe_zh, render_address_dialog,
\* layoutAddress, layoutXPUB, layoutResetWord, layoutProgressSwipe,
\* layoutU2FDialog) the current screen layoutLast is neither Home nor
\* Screensaver, so that the tick treats the dialog as displayed.
C25_DialogIsCurrent ==
  DialogShown => layoutLast \notin {"layoutHome", "layoutScreensaver"}

(***************************************************************************)
(* A further property of the dialogs (specification SpecSplit).            *)
(***************************************************************************)
\* C26: layoutPublicKey shows the complete 32 key bytes that follow the
\* prefix byte: its four lines are the 64 hex characters of pubkey[1..32],
\* 16 on each line, none of them replaced by a truncation marker.
C26_WholeKeyShown ==
  (pc = "s_ret" /\ fn = "layoutPublicKey")
  => /\ \A k \in 0..3 : Len(shown[k]) = HexRow
     /\ shown[0] \o shown[1] \o shown[2] \o shown[3]
          = data2hex(SubSeq(msg, 2, RowCap + 1))
====
